---- MODULE Spec2Model ----
(***************************************************************************)
(* Model of src/src/fmrapi/fmrapi.py, the client of the Fusion Metadata    *)
(* Registry (FMR): the codelist writers add_single_item_to_codelist and    *)
(* add_items_to_codelist, and the dataset validators                       *)
(* validate_single_dataset_fmr and validate_datasets_fmr.                  *)
(*                                                                         *)
(* The program is sequential.  Each action is the stretch of one function  *)
(* between two things the outside can see: an HTTP request, the sleep.     *)
(* The registry answers every request; what it answers is chosen with \E.  *)
(*                                                                         *)
(* Python values are encoded so that values of one variable stay           *)
(* comparable: a dict is the set of its <<key, value>> pairs, a value of   *)
(* varying type is a record [t, s, l] tagged with its type, a JSON body is *)
(* a record that tells whether it parses and which keys it has.            *)
(*                                                                         *)
(* What the model takes from the surroundings of the program: the file to  *)
(* upload exists, every request gets a response, and response.json() of a  *)
(* body that does not parse raises the json.JSONDecodeError the handlers   *)
(* name.  A JSON body of the codelist GET is a codelist, and the Datasets  *)
(* of a status, when present, each hold a non-empty ValidationReport.      *)
(* logger.info is left out, except for the arguments it evaluates.         *)
(***************************************************************************)
EXTENDS Integers, Sequences, FiniteSets, TLC

\* ---------------------------------------------------------------- bounds
MaxFiles == 2
MaxDatasets == 2
MaxItems == 2

VARIABLES
    top,          \* the function called from outside, current or most recent
    pc,           \* position in it; "done" when it has returned or raised
    ret,          \* what the call of `top` returned or raised
    trace,        \* requests and sleeps: of the current single validation,
                  \* or of the whole current writer call
    \* validate_datasets_fmr / validate_single_dataset_fmr
    boolean,      \* the gate argument
    datasets,     \* the keys of the datasets mapping, in iteration order
    fidx,         \* position of the loop of validate_datasets_fmr in datasets
    filepath,     \* argument of the current validate_single_dataset_fmr
    validated,    \* dict filename -> bool
    error,        \* dict filename -> error_dict
    handles,      \* the file objects opened by the current outside call
    val_req,      \* response of the upload POST
    load_status,  \* response of the status GET
    single_ret,   \* outcome of the most recent validate_single_dataset_fmr
    \* add_single_item_to_codelist / add_items_to_codelist
    server,       \* the registry: codelist id -> sequence of items
    codelist_id,  \* argument
    action,       \* argument: "MERGE" or "REPLACE"
    item_list,    \* argument of add_items_to_codelist
    idx,          \* position of its loop
    item,         \* [id, description] of the current add_single_item_to_codelist
    req,          \* the codelist JSON fetched, as sent back by the POST
    prev          \* summary of the add_single_item_to_codelist call before this one

vvars == <<boolean, datasets, fidx, filepath, validated, error, handles,
           val_req, load_status, single_ret>>
wvars == <<server, codelist_id, action, item_list, idx, item, req, prev>>
vars == <<top, pc, ret, trace, vvars, wvars>>

\* ------------------------------------------------------- Python encodings
Range(s) == {s[i] : i \in 1..Len(s)}

\* d[k] = v on a dict held as a set of <<key, value>> pairs
DictSet(d, k, v) == {p \in d : p[1] # k} \cup {<<k, v>>}

Str(s) == [t |-> "str", s |-> s, l |-> <<>>]
List(l) == [t |-> "list", s |-> "", l |-> l]

\* outcomes of a call
Pending == [kind |-> "pending", type |-> "", val |-> <<>>]
Return(type, v) == [kind |-> "return", type |-> type, val |-> v]
Raise(exc) == [kind |-> "raise", type |-> exc, val |-> <<>>]
PyNone == Return("NoneType", <<>>)
PyTrue == Return("bool", <<TRUE>>)

\* an event of the trace
Event(op, ep, arg) == [op |-> op, ep |-> ep, arg |-> arg]

\* ------------------------------------------------- validator: environment
FileNameTable == <<"a.csv", "b.csv", "c.csv", "d.csv", "e.csv", "f.csv">>
FolderName == "sdmx"

RECURSIVE Reverse(_)
Reverse(s) == IF s = <<>> THEN <<>> ELSE Append(Reverse(Tail(s)), Head(s))

\* the key orders of the datasets mappings tried
DatasetMappings ==
    {SubSeq(FileNameTable, 1, k) : k \in 0..MaxFiles}
        \cup {Reverse(SubSeq(FileNameTable, 1, MaxFiles))}

Uids == {"123", "456"}
LoadStatusCodes == {200, 500}
NoBody == [json |-> FALSE, keys |-> {}, uid |-> ""]
LoadBodies ==
    {NoBody, [json |-> TRUE, keys |-> {}, uid |-> ""]}
        \cup {[json |-> TRUE, keys |-> {"uid"}, uid |-> u] : u \in Uids}
LoadResponses == [status_code : LoadStatusCodes, body : LoadBodies]
NoResponse == [status_code |-> 0, body |-> NoBody]

\* JSON literals the key Errors of a status may hold
ErrorsVals == {"false", "true", "[]", "[\"bad row\"]"}
\* the value of ValidationReport of one dataset: the first entry counts
ValidationReports ==
    {<<[Errors |-> <<"bad row">>]>>,
     <<[Errors |-> <<>>], [Errors |-> <<"bad row">>]>>}
RECURSIVE SeqsUpTo(_, _)
SeqsUpTo(S, n) ==
    IF n = 0 THEN {<<>>}
    ELSE LET shorter == SeqsUpTo(S, n - 1)
         IN shorter \cup {Append(s, x) : s \in shorter, x \in S}
DatasetSeqs ==
    {[i \in 1..Len(s) |-> [ValidationReport |-> s[i]]] :
        s \in SeqsUpTo(ValidationReports, MaxDatasets)}
NoStatus == [json |-> FALSE, keys |-> {}, Errors |-> "false", Datasets |-> <<>>]
StatusBodies ==
    {NoStatus}
        \cup {[json |-> TRUE, keys |-> k, Errors |-> e, Datasets |-> d] :
                k \in SUBSET {"Errors", "Error", "Datasets"},
                e \in ErrorsVals, d \in DatasetSeqs}
\* a key that is absent carries no value
WellFormedStatus(s) ==
    /\ "Errors" \notin s.keys => s.Errors = "false"
    /\ "Datasets" \notin s.keys => s.Datasets = <<>>

\* ------------------------------------------------------ validator: code
\* os.path.join(export_path, filename)
TempPath(folder_name, filename) == <<"data", "03_primary", folder_name, filename>>

\* time.sleep(5)
SleepSeconds == 5

\* if val_req.status_code == 200
LoadOk_NoCheck(status_code) == status_code >= 200
LoadOk(status_code) == status_code = 200

\* params={"uid" : val_req['uid']}
StatusParams_Fixed(body) == "123"
StatusParams(body) == body.uid

\* if load_status['Errors']: the truth value of the JSON value
Truthy(v) == v \notin {"false", "null", "0", "[]", "{}", "\"\""}

\* errors = []; for dx in load_status['Datasets']: errors.append(...[0]['Errors'])
CollectErrors_Reversed(Datasets) ==
    [i \in 1..Len(Datasets) |-> Datasets[Len(Datasets) + 1 - i].ValidationReport[1].Errors]
CollectErrors(Datasets) ==
    [i \in 1..Len(Datasets) |-> Datasets[i].ValidationReport[1].Errors]

\* if 'Errors' in load_status.keys() ... elif 'Error' in load_status.keys()
StatusBranch_ErrorFirst(keys) ==
    IF "Error" \in keys THEN "Error"
    ELSE IF "Errors" \in keys THEN "Errors"
    ELSE "none"
StatusBranch(keys) ==
    IF "Errors" \in keys THEN "Errors"
    ELSE IF "Error" \in keys THEN "Error"
    ELSE "none"

ErrorDict(v) == {<<"ValidationReport", v>>}
ReturnPair(validated_bool, error_dict) ==
    Return("tuple", <<validated_bool, error_dict>>)

\* lines 229-276, given the parsed or unparsable body of the status GET
StatusOutcome(status) ==
    IF ~status.json
    THEN ReturnPair(FALSE, ErrorDict(Str("Cannot connect to FMR instance")))
    ELSE CASE StatusBranch(status.keys) = "Errors" ->
                IF Truthy(status.Errors)
                THEN IF "Datasets" \in status.keys
                     THEN ReturnPair(FALSE,
                              ErrorDict(List(CollectErrors(status.Datasets))))
                     ELSE Raise("KeyError")
                ELSE ReturnPair(TRUE, {})
           [] StatusBranch(status.keys) = "Error" ->
                ReturnPair(FALSE, ErrorDict(Str("Session timed out")))
           [] OTHER ->
                \* validated_bool was never assigned
                Raise("UnboundLocalError")

\* lines 219-223 and 264-276: what the load response alone decides;
\* Pending when the status GET is to be issued
LoadOutcome(response) ==
    IF ~LoadOk(response.status_code)
    THEN ReturnPair(FALSE, ErrorDict(Str("Error with load endpoint")))
    ELSE IF ~response.body.json
    THEN ReturnPair(FALSE, ErrorDict(Str("Cannot connect to FMR instance")))
    ELSE IF "uid" \notin response.body.keys
    THEN Raise("KeyError")
    ELSE Pending

\* if boolean
GateOpen_Ignored(b) == TRUE
GateOpen(b) == b

\* the end of one validate_single_dataset_fmr with outcome r: the return to
\* the outside caller, or lines 319-322 of the loop of validate_datasets_fmr
FinishSingle(r) ==
    /\ single_ret' = r
    /\ IF top = "validate_single_dataset_fmr" \/ r.kind = "raise"
       THEN /\ ret' = r
            /\ pc' = "done"
            /\ UNCHANGED <<validated, error, fidx, filepath>>
       ELSE /\ validated' = DictSet(validated, datasets[fidx], r.val[1])
            /\ error' = DictSet(error, datasets[fidx], r.val[2])
            /\ IF fidx = Len(datasets)
               THEN /\ ret' = Return("tuple", <<validated', error'>>)
                    /\ pc' = "done"
                    /\ UNCHANGED <<fidx, filepath>>
               ELSE /\ fidx' = fidx + 1
                    /\ filepath' = TempPath(FolderName, datasets[fidx + 1])
                    /\ pc' = "post"
                    /\ ret' = ret

\* a call of validate_single_dataset_fmr from outside
CallValidateSingle ==
    /\ pc = "done"
    /\ \E f \in Range(SubSeq(FileNameTable, 1, MaxFiles)) :
          filepath' = TempPath(FolderName, f)
    /\ top' = "validate_single_dataset_fmr"
    /\ pc' = "post"
    /\ ret' = Pending
    /\ trace' = <<>>
    /\ handles' = <<>>
    /\ val_req' = NoResponse
    /\ load_status' = NoStatus
    /\ single_ret' = Pending
    /\ datasets' = <<>>
    /\ fidx' = 0
    /\ validated' = {}
    /\ error' = {}
    /\ UNCHANGED <<boolean, wvars>>

\* a call of validate_datasets_fmr from outside: lines 299-311 and 323-324
CallValidateDatasets ==
    /\ pc = "done"
    /\ \E d \in DatasetMappings, b \in BOOLEAN :
          /\ datasets' = d
          /\ boolean' = b
          /\ IF GateOpen(b)
             THEN IF d = <<>>
                  THEN /\ ret' = Return("tuple", <<{}, {}>>)
                       /\ pc' = "done"
                       /\ fidx' = 0
                       /\ filepath' = <<>>
                  ELSE /\ ret' = Pending
                       /\ pc' = "post"
                       /\ fidx' = 1
                       /\ filepath' = TempPath(FolderName, d[1])
             ELSE /\ ret' = PyNone
                  /\ pc' = "done"
                  /\ fidx' = 0
                  /\ filepath' = <<>>
    /\ top' = "validate_datasets_fmr"
    /\ trace' = <<>>
    /\ handles' = <<>>
    /\ val_req' = NoResponse
    /\ load_status' = NoStatus
    /\ single_ret' = Pending
    /\ validated' = {}
    /\ error' = {}
    /\ UNCHANGED wvars

\* lines 209-215: open(filepath, 'rb') and the upload POST
V_Post ==
    /\ pc = "post"
    /\ top \in {"validate_single_dataset_fmr", "validate_datasets_fmr"}
    /\ handles' = Append(handles, [path |-> filepath, state |-> "open", uploads |-> 1])
    /\ \E response \in LoadResponses : val_req' = response
    /\ trace' = <<Event("POST", "load_endpoint", "uploadFile")>>
    /\ load_status' = NoStatus
    /\ single_ret' = Pending
    /\ pc' = "sleep"
    /\ UNCHANGED <<top, ret, boolean, datasets, fidx, filepath, validated, error, wvars>>

\* lines 217-223: time.sleep(5), then the load response is looked at
V_Sleep ==
    /\ pc = "sleep"
    /\ trace' = Append(trace, Event("sleep", "", SleepSeconds))
    /\ IF LoadOutcome(val_req) = Pending
       THEN /\ pc' = "status"
            /\ UNCHANGED <<ret, single_ret, validated, error, fidx, filepath>>
       ELSE FinishSingle(LoadOutcome(val_req))
    /\ UNCHANGED <<top, boolean, datasets, handles, val_req, load_status, wvars>>

\* lines 224-276: the status GET and what follows from its answer
V_Status ==
    /\ pc = "status"
    /\ trace' = Append(trace, Event("GET", "load_status_endpoint", StatusParams(val_req.body)))
    /\ \E status \in StatusBodies :
          /\ WellFormedStatus(status)
          /\ load_status' = status
          /\ FinishSingle(StatusOutcome(status))
    /\ UNCHANGED <<top, boolean, datasets, handles, val_req, wvars>>

\* No line of the program closes a file object.  The interpreter may close
\* the ones no longer referenced at any moment, or never.
Finalize ==
    /\ \E i \in 1..Len(handles) : handles[i].state = "open"
    /\ handles' = [i \in 1..Len(handles) |-> [handles[i] EXCEPT !.state = "closed"]]
    /\ UNCHANGED <<top, pc, ret, trace, boolean, datasets, fidx, filepath, validated,
                   error, val_req, load_status, single_ret, wvars>>

\* ---------------------------------------------------- writer: environment
CodelistIds == {"CL_REF_AREA", "CL_INCOME"}
ItemIds == {"INX", "HIC"}
Actions == {"MERGE", "REPLACE"}
Items == [id : ItemIds, description : {"Not classified"}]
NoItem == [id |-> "", description |-> ""]
NoReq == [json |-> FALSE, Codelist |-> <<>>]
NoPrev == [valid |-> FALSE, codelist_id |-> "", item_id |-> "", posts |-> 0,
           applied |-> TRUE, json |-> FALSE]

\* temp_payload, lines 82-90
Payload(item_id, item_description) ==
    [id |-> item_id, names |-> <<[locale |-> "en", value |-> item_description]>>]

\* the registry before the first call
InitialServer ==
    [c \in CodelistIds |->
        IF c = "CL_REF_AREA" THEN <<Payload("INX", "Not classified")>> ELSE <<>>]

\* the body of GET <endpoint_path><agency>/<codelist_id><format> when it is JSON
CodelistJson(c) == [json |-> TRUE, Codelist |-> <<[id |-> c, items |-> server[c]]>>]

\* what the registry does with a POST it accepts: MERGE adds the items of
\* the body to the codelist (an item of the same id is replaced), REPLACE
\* puts the items of the body in place of the codelist's
RECURSIVE MergeItems(_, _)
MergeItems(items, new) ==
    IF new = <<>> THEN items
    ELSE LET n == Head(new)
             at == {i \in 1..Len(items) : items[i].id = n.id}
             merged == IF at = {} THEN Append(items, n)
                       ELSE [i \in 1..Len(items) |-> IF i \in at THEN n ELSE items[i]]
         IN MergeItems(merged, Tail(new))
ServerApply(srv, body, act) ==
    LET c == body.Codelist[1].id
    IN [srv EXCEPT ![c] = IF act = "REPLACE" THEN body.Codelist[1].items
                          ELSE MergeItems(srv[c], body.Codelist[1].items)]

\* ----------------------------------------------------------- writer: code
\* existing_list = [i['id'] for i in req['Codelist'][0]['items']]
ExistingList(body) ==
    [i \in 1..Len(body.Codelist[1].items) |-> body.Codelist[1].items[i].id]

\* if temp_payload['id'] not in existing_list
ItemMissing_Always(item_id, existing_list) == TRUE
ItemMissing(item_id, existing_list) == item_id \notin Range(existing_list)

\* req['Codelist'][0]['items'] = [temp_payload]
WithItems(body, payload) == [body EXCEPT !.Codelist[1].items = <<payload>>]

\* what is written down of a request of the writer and of its answer
WEvent(op, purpose, json, found, applied) ==
    Event(op, IF op = "POST" THEN "add_item_endpoint" ELSE "codelist",
          [codelist |-> codelist_id, item |-> item.id, purpose |-> purpose,
           json |-> json, found |-> found, applied |-> applied])

Posts(t) == {i \in 1..Len(t) : t[i].op = "POST"}

\* the call of add_single_item_to_codelist that has just ended
Summary ==
    IF top = "add_single_item_to_codelist" /\ trace # <<>>
    THEN [valid |-> TRUE, codelist_id |-> codelist_id, item_id |-> item.id,
          posts |-> Cardinality(Posts(trace)),
          applied |-> \A i \in Posts(trace) : trace[i].arg.applied,
          json |-> trace[1].arg.json]
    ELSE NoPrev

\* return True of add_single_item_to_codelist (line 149): to the outside
\* caller, or into the loop of add_items_to_codelist (lines 171-183)
FinishItem ==
    IF top = "add_single_item_to_codelist" \/ idx = Len(item_list)
    THEN /\ ret' = PyTrue
         /\ pc' = "done"
         /\ UNCHANGED <<idx, item>>
    ELSE /\ idx' = idx + 1
         /\ item' = item_list[idx + 1]
         /\ pc' = "get"
         /\ ret' = ret

\* a call of add_single_item_to_codelist from outside
CallAddSingle ==
    /\ pc = "done"
    /\ \E c \in CodelistIds, it \in Items, a \in Actions :
          /\ codelist_id' = c
          /\ item' = it
          /\ action' = a
    /\ prev' = Summary
    /\ top' = "add_single_item_to_codelist"
    /\ pc' = "get"
    /\ ret' = Pending
    /\ trace' = <<>>
    /\ req' = NoReq
    /\ item_list' = <<>>
    /\ idx' = 0
    /\ UNCHANGED <<server, vvars>>

\* a call of add_items_to_codelist from outside: lines 169-171
CallAddItems ==
    /\ pc = "done"
    /\ \E c \in CodelistIds, l \in SeqsUpTo(Items, MaxItems), a \in Actions :
          /\ codelist_id' = c
          /\ item_list' = l
          /\ action' = a
          /\ IF l = <<>>
             THEN /\ ret' = PyTrue
                  /\ pc' = "done"
                  /\ idx' = 0
                  /\ item' = NoItem
             ELSE /\ ret' = Pending
                  /\ pc' = "get"
                  /\ idx' = 1
                  /\ item' = l[1]
    /\ prev' = NoPrev
    /\ top' = "add_items_to_codelist"
    /\ trace' = <<>>
    /\ req' = NoReq
    /\ UNCHANGED <<server, vvars>>

\* lines 96-111 and 129-133: the GET of the codelist and the test for the id
W_Get ==
    /\ pc = "get"
    /\ \E json \in BOOLEAN :
          IF json
          THEN LET body == CodelistJson(codelist_id)
                   missing == ItemMissing(item.id, ExistingList(body))
               IN /\ trace' = Append(trace, WEvent("GET", "check", TRUE,
                                 \E i \in 1..Len(server[codelist_id]) :
                                     server[codelist_id][i].id = item.id, FALSE))
                  /\ IF missing
                     THEN /\ req' = WithItems(body, Payload(item.id, item.description))
                          /\ pc' = "post"
                          /\ UNCHANGED <<ret, idx, item>>
                     ELSE /\ req' = body
                          /\ FinishItem
          ELSE /\ trace' = Append(trace, WEvent("GET", "check", FALSE, FALSE, FALSE))
               /\ pc' = "diag"
               /\ UNCHANGED <<ret, idx, item, req>>
    /\ UNCHANGED <<top, server, codelist_id, action, item_list, prev, vvars>>

\* lines 113-127 and 133: the POST, and the look at its answer
W_Post ==
    /\ pc = "post"
    /\ \E applied \in BOOLEAN, success \in BOOLEAN, json \in BOOLEAN :
          /\ success => applied
          /\ server' = IF applied THEN ServerApply(server, req, action) ELSE server
          /\ trace' = Append(trace, WEvent("POST", "add", json, FALSE, applied))
          /\ IF success \/ json
             THEN FinishItem
             ELSE \* response.json() raises inside the try
                  /\ pc' = "diag"
                  /\ UNCHANGED <<ret, idx, item>>
    /\ UNCHANGED <<top, codelist_id, action, item_list, req, prev, vvars>>

\* lines 133-147: the handler issues the GET again and calls .json() on it;
\* a body that does not parse raises out of the handler, and one that
\* parses is a dict, of which .text is then read
W_Diag ==
    /\ pc = "diag"
    /\ \E json \in BOOLEAN :
          /\ trace' = Append(trace, WEvent("GET", "diagnostic", json, FALSE, FALSE))
          /\ ret' = Raise(IF json THEN "AttributeError" ELSE "JSONDecodeError")
    /\ pc' = "done"
    /\ UNCHANGED <<top, server, codelist_id, action, item_list, idx, item, req, prev, vvars>>

\* ------------------------------------------------- properties: validator
SingleEnded == single_ret.kind # "pending"
StatusAsked == Len(trace) = 3
Failure(reason) == Return("tuple", <<FALSE, {<<"ValidationReport", Str(reason)>>}>>)
Success == Return("tuple", <<TRUE, {}>>)
ErrorsFalsy == load_status.Errors \in {"false", "[]"}

\* C1: when the load response has a status other than 200, the call returns
\* (False, {"ValidationReport": "Error with load endpoint"}) and issues no
\* GET to the load-status endpoint, whatever the body of the load response.
C1_Non200 ==
    val_req.status_code \notin {0, 200} =>
        /\ pc # "status"
        /\ \A i \in 1..Len(trace) : trace[i].op # "GET"
        /\ SingleEnded => single_ret = Failure("Error with load endpoint")
        /\ (SingleEnded /\ top = "validate_single_dataset_fmr") =>
               (pc = "done" /\ ret = single_ret)
C1_Witness ==
    /\ SingleEnded
    /\ val_req.status_code = 500
    /\ val_req.body.json /\ "uid" \in val_req.body.keys
    /\ Len(trace) = 2

\* C2: with a load response 200 whose JSON carries a uid and a status JSON
\* that has the key Errors: a false or empty Errors gives (True, {}); a true
\* or non-empty Errors gives (False, {"ValidationReport": L}), L being as
\* long as the Datasets of the status and holding, in their order, the
\* Errors of the first ValidationReport entry of each.
C2_ErrorsBranch ==
    (/\ SingleEnded /\ StatusAsked
     /\ val_req.status_code = 200 /\ val_req.body.json /\ "uid" \in val_req.body.keys
     /\ load_status.json /\ "Errors" \in load_status.keys) =>
        IF ErrorsFalsy
        THEN single_ret = Success
        ELSE "Datasets" \in load_status.keys =>
                /\ single_ret.kind = "return"
                /\ single_ret.val[1] = FALSE
                /\ \E L \in UNION {[1..n -> {<<>>, <<"bad row">>}] : n \in 0..Len(load_status.Datasets)} :
                      /\ single_ret.val[2] = {<<"ValidationReport", [t |-> "list", s |-> "", l |-> L]>>}
                      /\ Len(L) = Len(load_status.Datasets)
                      /\ \A i \in 1..Len(L) :
                            L[i] = Head(load_status.Datasets[i].ValidationReport).Errors
C2_Witness ==
    /\ SingleEnded /\ StatusAsked
    /\ load_status.json /\ {"Errors", "Datasets"} \subseteq load_status.keys
    /\ load_status.Errors = "[\"bad row\"]"
    /\ Len(load_status.Datasets) = 2
    /\ Len(load_status.Datasets[1].ValidationReport) = 2
    /\ Len(load_status.Datasets[2].ValidationReport) = 1
    /\ single_ret = Return("tuple",
           <<FALSE, {<<"ValidationReport", List(<< <<>>, <<"bad row">> >>)>>}>>)

\* C3: every call returns a pair (validated, error_dict), validated a
\* boolean, error_dict empty exactly when validated is True; no call ends
\* otherwise.
C3_TotalOutcome ==
    SingleEnded =>
        /\ single_ret.kind = "return"
        /\ single_ret.type = "tuple"
        /\ single_ret.val[1] \in BOOLEAN
        /\ (single_ret.val[2] = {}) <=> single_ret.val[1]

\* C7: validate_datasets_fmr with the gate false returns None for every
\* datasets mapping, opening no file and issuing no POST and no GET; with
\* the gate true and an empty mapping it returns ({}, {}), which differs.
C7_Gate ==
    (top = "validate_datasets_fmr" /\ pc = "done") =>
        /\ ~boolean =>
              /\ ret = Return("NoneType", <<>>)
              /\ handles = <<>>
              /\ trace = <<>>
              /\ single_ret = Pending
        /\ (boolean /\ datasets = <<>>) =>
              /\ ret = Return("tuple", <<{}, {}>>)
              /\ ret # Return("NoneType", <<>>)
              /\ handles = <<>>
C7_Witness ==
    /\ top = "validate_datasets_fmr" /\ pc = "done"
    /\ ~boolean
    /\ Len(datasets) >= 2
    /\ ret = PyNone

\* C8: the file object opened for the upload serves one upload POST and is
\* closed when the call ends, however it ends; in a batch no file object of
\* an earlier file is open when the next file is taken or the batch returns.
C8_HandlesClosed ==
    /\ \A i \in 1..Len(handles) : handles[i].uploads = 1
    /\ (top \in {"validate_single_dataset_fmr", "validate_datasets_fmr"}
            /\ pc \in {"done", "post"}) =>
           \A i \in 1..Len(handles) : handles[i].state = "closed"

\* C9: a call issues the upload POST once, then sleeps 5, then issues at
\* most one status GET, whose uid is the one of this call's load response;
\* the sleep is taken whatever the load response is.
C9_Order ==
    /\ Len(trace) <= 3
    /\ Len(trace) >= 1 => trace[1] = Event("POST", "load_endpoint", "uploadFile")
    /\ Len(trace) >= 2 => trace[2] = Event("sleep", "", 5)
    /\ Len(trace) = 3 =>
          /\ trace[3].op = "GET"
          /\ trace[3].ep = "load_status_endpoint"
          /\ "uid" \in val_req.body.keys
          /\ trace[3].arg = val_req.body.uid
    /\ pc = "sleep" => Len(trace) = 1
    /\ pc = "status" => Len(trace) = 2
    /\ SingleEnded => Len(trace) >= 2
    /\ Len(handles) > 0 => Len(trace) >= 1
C9_Witness ==
    /\ SingleEnded /\ StatusAsked
    /\ val_req.body.uid = "456"
    /\ trace[3].arg = "456"
    /\ top = "validate_datasets_fmr" /\ fidx = 2

\* C10: with a load response 200, a load or status body that is no JSON
\* gives "Cannot connect to FMR instance", a status JSON with Error and
\* without Errors gives "Session timed out", and with both keys the Errors
\* branch decides; each reason string comes from its own case alone.
C10_Reasons ==
    SingleEnded =>
        /\ single_ret = Failure("Error with load endpoint")
              <=> val_req.status_code # 200
        /\ single_ret = Failure("Cannot connect to FMR instance")
              <=> /\ val_req.status_code = 200
                  /\ \/ ~val_req.body.json
                     \/ StatusAsked /\ ~load_status.json
        /\ single_ret = Failure("Session timed out")
              <=> /\ val_req.status_code = 200
                  /\ StatusAsked /\ load_status.json
                  /\ "Error" \in load_status.keys
                  /\ "Errors" \notin load_status.keys
        /\ (val_req.status_code = 200 /\ ~val_req.body.json) => ~StatusAsked
        /\ (StatusAsked /\ load_status.json
                /\ {"Error", "Errors"} \subseteq load_status.keys) =>
              /\ ErrorsFalsy => single_ret = Success
              /\ (~ErrorsFalsy /\ "Datasets" \in load_status.keys) =>
                    /\ single_ret.kind = "return"
                    /\ single_ret.val[1] = FALSE
                    /\ \A p \in single_ret.val[2] : p[2].t = "list"
C10_Witness ==
    /\ SingleEnded /\ StatusAsked
    /\ load_status.json
    /\ {"Error", "Errors"} \subseteq load_status.keys
    /\ load_status.Errors = "[]"
    /\ single_ret = Success

\* ---------------------------------------------------- properties: writer
IsCheck(e) == e.op = "GET" /\ e.arg.purpose = "check"

\* C4: a call whose existence-check GET shows the item in the codelist
\* issues no POST; every call issues at most one POST; and two calls in a
\* row with the same codelist and item, the registry applying the POST it
\* gets, issue at most one POST together, none in the second when the
\* first one's GET was answered with the codelist.
C4_Idempotent ==
    /\ \A i \in Posts(trace) :
          /\ i > 1
          /\ IsCheck(trace[i - 1])
          /\ trace[i - 1].arg.json /\ ~trace[i - 1].arg.found
          /\ trace[i - 1].arg.item = trace[i].arg.item
    /\ top = "add_single_item_to_codelist" =>
          /\ Cardinality(Posts(trace)) <= 1
          /\ (trace # <<>> /\ trace[1].arg.found) => Posts(trace) = {}
          /\ (/\ prev.valid /\ prev.applied
              /\ prev.codelist_id = codelist_id /\ prev.item_id = item.id) =>
                /\ prev.posts + Cardinality(Posts(trace)) <= 1
                /\ prev.json => Posts(trace) = {}
C4_Witness ==
    /\ top = "add_single_item_to_codelist" /\ pc = "done"
    /\ prev.valid /\ prev.applied /\ prev.posts = 1
    /\ prev.codelist_id = codelist_id /\ prev.item_id = item.id
    /\ Len(trace) = 1 /\ trace[1].arg.found
    /\ ret = PyTrue

\* C5: add_single_item_to_codelist ends by returning True whatever the
\* registry answers to the GET, to the GET issued again and to the POST.
C5_AlwaysTrue ==
    (top = "add_single_item_to_codelist" /\ pc = "done") =>
        ret = Return("bool", <<TRUE>>)

\* C6: add_items_to_codelist issues one existence-check GET for each item of
\* the list, in the order of the list, whatever became of the earlier items,
\* and returns True.
C6_AllChecked ==
    (top = "add_items_to_codelist" /\ pc = "done") =>
        /\ ret = Return("bool", <<TRUE>>)
        /\ LET checks == SelectSeq(trace, IsCheck)
           IN /\ Len(checks) = Len(item_list)
              /\ \A i \in 1..Len(checks) : checks[i].arg.item = item_list[i].id

Init ==
    /\ top = "none"
    /\ pc = "done"
    /\ ret = Pending
    /\ trace = <<>>
    /\ boolean = FALSE
    /\ datasets = <<>>
    /\ fidx = 0
    /\ filepath = <<>>
    /\ validated = {}
    /\ error = {}
    /\ handles = <<>>
    /\ val_req = NoResponse
    /\ load_status = NoStatus
    /\ single_ret = Pending
    /\ server = InitialServer
    /\ codelist_id = ""
    /\ action = ""
    /\ item_list = <<>>
    /\ idx = 0
    /\ item = NoItem
    /\ req = NoReq
    /\ prev = NoPrev

Next ==
    \/ CallValidateSingle
    \/ CallValidateDatasets
    \/ V_Post
    \/ V_Sleep
    \/ V_Status
    \/ Finalize

Spec == Init /\ [][Next]_vars

WriterNext ==
    \/ CallAddSingle
    \/ CallAddItems
    \/ W_Get
    \/ W_Post
    \/ W_Diag

WriterSpec == Init /\ [][WriterNext]_vars
====
